---------------------------- MODULE Spec2Model ----------------------------
(***************************************************************************)
(* Model of the medication safety engine of src/main.py:                   *)
(* MedicationSafetyEngine.find_medication, check_interactions,             *)
(* analyze_medications and _generate_recommendations, over the engine's    *)
(* two fields (self.medications, self.interactions).                       *)
(*                                                                         *)
(* Python strings are sequences of one-character strings, so that lower(), *)
(* strip(), == and the substring test `in` are computed, not assumed.      *)
(* A dict is the sequence of its values in insertion (iteration) order.    *)
(***************************************************************************)
EXTENDS Integers, Sequences, FiniteSets, TLC

VARIABLES
    medications,    \* self.medications: drug records in dict iteration order
    interactions,   \* self.interactions: interaction records in dataset order
    call,           \* the last operation invoked and its argument
    result          \* what that operation returned (or the error it raised)

vars == <<medications, interactions, call, result>>

-----------------------------------------------------------------------------
(* Bounds of the model *)

\* most drugs in a Knowledge Base
MaxMeds == 2
\* longest name handed to find_medication
MaxQueryLen == 2
\* most interaction records of a dataset in the lookup datasets
MaxInteractions == 2
\* most interaction records of a dataset in the severity datasets
MaxFlagged == 3
\* longest list handed to analyze_medications or check_interactions
MaxNames == 2

-----------------------------------------------------------------------------
(* Python values *)

None == [py_none |-> TRUE]

\* the dict without a key
EmptyDict == [k \in {} |-> k]

\* Python truthiness of an Optional[dict]: None and the empty dict are falsy,
\* a dict with a key is truthy
Truthy(v) == v # None /\ DOMAIN v # {}

\* A str is modelled as the sequence of its code points (ord of each
\* character): "aB" is <<97, 66>>.  This holds for the strings the code
\* lowers, strips and searches (the queries and the names of the drugs); a
\* text the code only copies or compares whole (an identifier, a severity, a
\* recommendation or warning text) is kept as one opaque string.
\* The tables below are those of the Unicode
\* database of CPython (14.0.0), which str.lower() and str.strip() consult.

\* the runs of the simple lower-case mapping above U+00BF: <<first, last,
\* step, delta>> says that the code points first, first + step, .., last go
\* to themselves plus delta
LowerRuns ==
    {
      <<192, 214, 1, 32>>, <<216, 222, 1, 32>>, <<256, 302, 2, 1>>,
      <<306, 310, 2, 1>>, <<313, 327, 2, 1>>, <<330, 374, 2, 1>>,
      <<376, 376, 1, -121>>, <<377, 381, 2, 1>>, <<385, 385, 1, 210>>,
      <<386, 388, 2, 1>>, <<390, 390, 1, 206>>, <<391, 391, 1, 1>>,
      <<393, 394, 1, 205>>, <<395, 395, 1, 1>>, <<398, 398, 1, 79>>,
      <<399, 399, 1, 202>>, <<400, 400, 1, 203>>, <<401, 401, 1, 1>>,
      <<403, 403, 1, 205>>, <<404, 404, 1, 207>>, <<406, 406, 1, 211>>,
      <<407, 407, 1, 209>>, <<408, 408, 1, 1>>, <<412, 412, 1, 211>>,
      <<413, 413, 1, 213>>, <<415, 415, 1, 214>>, <<416, 420, 2, 1>>,
      <<422, 422, 1, 218>>, <<423, 423, 1, 1>>, <<425, 425, 1, 218>>,
      <<428, 428, 1, 1>>, <<430, 430, 1, 218>>, <<431, 431, 1, 1>>,
      <<433, 434, 1, 217>>, <<435, 437, 2, 1>>, <<439, 439, 1, 219>>,
      <<440, 440, 1, 1>>, <<444, 444, 1, 1>>, <<452, 452, 1, 2>>,
      <<453, 453, 1, 1>>, <<455, 455, 1, 2>>, <<456, 456, 1, 1>>,
      <<458, 458, 1, 2>>, <<459, 475, 2, 1>>, <<478, 494, 2, 1>>,
      <<497, 497, 1, 2>>, <<498, 500, 2, 1>>, <<502, 502, 1, -97>>,
      <<503, 503, 1, -56>>, <<504, 542, 2, 1>>, <<544, 544, 1, -130>>,
      <<546, 562, 2, 1>>, <<570, 570, 1, 10795>>, <<571, 571, 1, 1>>,
      <<573, 573, 1, -163>>, <<574, 574, 1, 10792>>, <<577, 577, 1, 1>>,
      <<579, 579, 1, -195>>, <<580, 580, 1, 69>>, <<581, 581, 1, 71>>,
      <<582, 590, 2, 1>>, <<880, 882, 2, 1>>, <<886, 886, 1, 1>>,
      <<895, 895, 1, 116>>, <<902, 902, 1, 38>>, <<904, 906, 1, 37>>,
      <<908, 908, 1, 64>>, <<910, 911, 1, 63>>, <<913, 929, 1, 32>>,
      <<931, 939, 1, 32>>, <<975, 975, 1, 8>>, <<984, 1006, 2, 1>>,
      <<1012, 1012, 1, -60>>, <<1015, 1015, 1, 1>>, <<1017, 1017, 1, -7>>,
      <<1018, 1018, 1, 1>>, <<1021, 1023, 1, -130>>, <<1024, 1039, 1, 80>>,
      <<1040, 1071, 1, 32>>, <<1120, 1152, 2, 1>>, <<1162, 1214, 2, 1>>,
      <<1216, 1216, 1, 15>>, <<1217, 1229, 2, 1>>, <<1232, 1326, 2, 1>>,
      <<1329, 1366, 1, 48>>, <<4256, 4293, 1, 7264>>,
      <<4295, 4295, 1, 7264>>, <<4301, 4301, 1, 7264>>,
      <<5024, 5103, 1, 38864>>, <<5104, 5109, 1, 8>>,
      <<7312, 7354, 1, -3008>>, <<7357, 7359, 1, -3008>>,
      <<7680, 7828, 2, 1>>, <<7838, 7838, 1, -7615>>, <<7840, 7934, 2, 1>>,
      <<7944, 7951, 1, -8>>, <<7960, 7965, 1, -8>>, <<7976, 7983, 1, -8>>,
      <<7992, 7999, 1, -8>>, <<8008, 8013, 1, -8>>, <<8025, 8031, 2, -8>>,
      <<8040, 8047, 1, -8>>, <<8072, 8079, 1, -8>>, <<8088, 8095, 1, -8>>,
      <<8104, 8111, 1, -8>>, <<8120, 8121, 1, -8>>, <<8122, 8123, 1, -74>>,
      <<8124, 8124, 1, -9>>, <<8136, 8139, 1, -86>>, <<8140, 8140, 1, -9>>,
      <<8152, 8153, 1, -8>>, <<8154, 8155, 1, -100>>, <<8168, 8169, 1, -8>>,
      <<8170, 8171, 1, -112>>, <<8172, 8172, 1, -7>>,
      <<8184, 8185, 1, -128>>, <<8186, 8187, 1, -126>>,
      <<8188, 8188, 1, -9>>, <<8486, 8486, 1, -7517>>,
      <<8490, 8490, 1, -8383>>, <<8491, 8491, 1, -8262>>,
      <<8498, 8498, 1, 28>>, <<8544, 8559, 1, 16>>, <<8579, 8579, 1, 1>>,
      <<9398, 9423, 1, 26>>, <<11264, 11311, 1, 48>>, <<11360, 11360, 1, 1>>,
      <<11362, 11362, 1, -10743>>, <<11363, 11363, 1, -3814>>,
      <<11364, 11364, 1, -10727>>, <<11367, 11371, 2, 1>>,
      <<11373, 11373, 1, -10780>>, <<11374, 11374, 1, -10749>>,
      <<11375, 11375, 1, -10783>>, <<11376, 11376, 1, -10782>>,
      <<11378, 11378, 1, 1>>, <<11381, 11381, 1, 1>>,
      <<11390, 11391, 1, -10815>>, <<11392, 11490, 2, 1>>,
      <<11499, 11501, 2, 1>>, <<11506, 11506, 1, 1>>, <<42560, 42604, 2, 1>>,
      <<42624, 42650, 2, 1>>, <<42786, 42798, 2, 1>>, <<42802, 42862, 2, 1>>,
      <<42873, 42875, 2, 1>>, <<42877, 42877, 1, -35332>>,
      <<42878, 42886, 2, 1>>, <<42891, 42891, 1, 1>>,
      <<42893, 42893, 1, -42280>>, <<42896, 42898, 2, 1>>,
      <<42902, 42920, 2, 1>>, <<42922, 42922, 1, -42308>>,
      <<42923, 42923, 1, -42319>>, <<42924, 42924, 1, -42315>>,
      <<42925, 42925, 1, -42305>>, <<42926, 42926, 1, -42308>>,
      <<42928, 42928, 1, -42258>>, <<42929, 42929, 1, -42282>>,
      <<42930, 42930, 1, -42261>>, <<42931, 42931, 1, 928>>,
      <<42932, 42946, 2, 1>>, <<42948, 42948, 1, -48>>,
      <<42949, 42949, 1, -42307>>, <<42950, 42950, 1, -35384>>,
      <<42951, 42953, 2, 1>>, <<42960, 42960, 1, 1>>, <<42966, 42968, 2, 1>>,
      <<42997, 42997, 1, 1>>, <<65313, 65338, 1, 32>>,
      <<66560, 66599, 1, 40>>, <<66736, 66771, 1, 40>>,
      <<66928, 66938, 1, 39>>, <<66940, 66954, 1, 39>>,
      <<66956, 66962, 1, 39>>, <<66964, 66965, 1, 39>>,
      <<68736, 68786, 1, 64>>, <<71840, 71871, 1, 32>>,
      <<93760, 93791, 1, 32>>, <<125184, 125217, 1, 34>>
    }

\* str.lower() on one character outside a string (_PyUnicode_ToLowerFull):
\* the code points it becomes.  A to Z go 32 up, no other character below
\* U+00C0 changes, U+0130 becomes two code points, a character of a run
\* moves by the delta of its run, any other character is left as it is.
LowerChar(c) ==
    IF c \in 65..90 THEN <<c + 32>>
    ELSE IF c < 192 THEN <<c>>
    ELSE IF c = 304 THEN <<105, 775>>
    ELSE LET run == {r \in LowerRuns :
                        c \in r[1]..r[2] /\ (c - r[1]) % r[3] = 0}
         IN  IF run = {} THEN <<c>>
             ELSE <<c + (CHOOSE r \in run : TRUE)[4]>>

\* the ranges <<first, last>> of the case-ignorable characters
\* (_PyUnicode_IsCaseIgnorable)
CaseIgnorableRanges ==
    {
      <<39, 39>>, <<46, 46>>, <<58, 58>>, <<94, 94>>, <<96, 96>>,
      <<168, 168>>, <<173, 173>>, <<175, 175>>, <<180, 180>>, <<183, 184>>,
      <<688, 879>>, <<884, 885>>, <<890, 890>>, <<900, 901>>, <<903, 903>>,
      <<1155, 1161>>, <<1369, 1369>>, <<1375, 1375>>, <<1425, 1469>>,
      <<1471, 1471>>, <<1473, 1474>>, <<1476, 1477>>, <<1479, 1479>>,
      <<1524, 1524>>, <<1536, 1541>>, <<1552, 1562>>, <<1564, 1564>>,
      <<1600, 1600>>, <<1611, 1631>>, <<1648, 1648>>, <<1750, 1757>>,
      <<1759, 1768>>, <<1770, 1773>>, <<1807, 1807>>, <<1809, 1809>>,
      <<1840, 1866>>, <<1958, 1968>>, <<2027, 2037>>, <<2042, 2042>>,
      <<2045, 2045>>, <<2070, 2093>>, <<2137, 2139>>, <<2184, 2184>>,
      <<2192, 2193>>, <<2200, 2207>>, <<2249, 2306>>, <<2362, 2362>>,
      <<2364, 2364>>, <<2369, 2376>>, <<2381, 2381>>, <<2385, 2391>>,
      <<2402, 2403>>, <<2417, 2417>>, <<2433, 2433>>, <<2492, 2492>>,
      <<2497, 2500>>, <<2509, 2509>>, <<2530, 2531>>, <<2558, 2558>>,
      <<2561, 2562>>, <<2620, 2620>>, <<2625, 2626>>, <<2631, 2632>>,
      <<2635, 2637>>, <<2641, 2641>>, <<2672, 2673>>, <<2677, 2677>>,
      <<2689, 2690>>, <<2748, 2748>>, <<2753, 2757>>, <<2759, 2760>>,
      <<2765, 2765>>, <<2786, 2787>>, <<2810, 2815>>, <<2817, 2817>>,
      <<2876, 2876>>, <<2879, 2879>>, <<2881, 2884>>, <<2893, 2893>>,
      <<2901, 2902>>, <<2914, 2915>>, <<2946, 2946>>, <<3008, 3008>>,
      <<3021, 3021>>, <<3072, 3072>>, <<3076, 3076>>, <<3132, 3132>>,
      <<3134, 3136>>, <<3142, 3144>>, <<3146, 3149>>, <<3157, 3158>>,
      <<3170, 3171>>, <<3201, 3201>>, <<3260, 3260>>, <<3263, 3263>>,
      <<3270, 3270>>, <<3276, 3277>>, <<3298, 3299>>, <<3328, 3329>>,
      <<3387, 3388>>, <<3393, 3396>>, <<3405, 3405>>, <<3426, 3427>>,
      <<3457, 3457>>, <<3530, 3530>>, <<3538, 3540>>, <<3542, 3542>>,
      <<3633, 3633>>, <<3636, 3642>>, <<3654, 3662>>, <<3761, 3761>>,
      <<3764, 3772>>, <<3782, 3782>>, <<3784, 3789>>, <<3864, 3865>>,
      <<3893, 3893>>, <<3895, 3895>>, <<3897, 3897>>, <<3953, 3966>>,
      <<3968, 3972>>, <<3974, 3975>>, <<3981, 3991>>, <<3993, 4028>>,
      <<4038, 4038>>, <<4141, 4144>>, <<4146, 4151>>, <<4153, 4154>>,
      <<4157, 4158>>, <<4184, 4185>>, <<4190, 4192>>, <<4209, 4212>>,
      <<4226, 4226>>, <<4229, 4230>>, <<4237, 4237>>, <<4253, 4253>>,
      <<4348, 4348>>, <<4957, 4959>>, <<5906, 5908>>, <<5938, 5939>>,
      <<5970, 5971>>, <<6002, 6003>>, <<6068, 6069>>, <<6071, 6077>>,
      <<6086, 6086>>, <<6089, 6099>>, <<6103, 6103>>, <<6109, 6109>>,
      <<6155, 6159>>, <<6211, 6211>>, <<6277, 6278>>, <<6313, 6313>>,
      <<6432, 6434>>, <<6439, 6440>>, <<6450, 6450>>, <<6457, 6459>>,
      <<6679, 6680>>, <<6683, 6683>>, <<6742, 6742>>, <<6744, 6750>>,
      <<6752, 6752>>, <<6754, 6754>>, <<6757, 6764>>, <<6771, 6780>>,
      <<6783, 6783>>, <<6823, 6823>>, <<6832, 6862>>, <<6912, 6915>>,
      <<6964, 6964>>, <<6966, 6970>>, <<6972, 6972>>, <<6978, 6978>>,
      <<7019, 7027>>, <<7040, 7041>>, <<7074, 7077>>, <<7080, 7081>>,
      <<7083, 7085>>, <<7142, 7142>>, <<7144, 7145>>, <<7149, 7149>>,
      <<7151, 7153>>, <<7212, 7219>>, <<7222, 7223>>, <<7288, 7293>>,
      <<7376, 7378>>, <<7380, 7392>>, <<7394, 7400>>, <<7405, 7405>>,
      <<7412, 7412>>, <<7416, 7417>>, <<7468, 7530>>, <<7544, 7544>>,
      <<7579, 7679>>, <<8125, 8125>>, <<8127, 8129>>, <<8141, 8143>>,
      <<8157, 8159>>, <<8173, 8175>>, <<8189, 8190>>, <<8203, 8207>>,
      <<8216, 8217>>, <<8228, 8228>>, <<8231, 8231>>, <<8234, 8238>>,
      <<8288, 8292>>, <<8294, 8303>>, <<8305, 8305>>, <<8319, 8319>>,
      <<8336, 8348>>, <<8400, 8432>>, <<11388, 11389>>, <<11503, 11505>>,
      <<11631, 11631>>, <<11647, 11647>>, <<11744, 11775>>, <<11823, 11823>>,
      <<12293, 12293>>, <<12330, 12333>>, <<12337, 12341>>, <<12347, 12347>>,
      <<12441, 12446>>, <<12540, 12542>>, <<40981, 40981>>, <<42232, 42237>>,
      <<42508, 42508>>, <<42607, 42610>>, <<42612, 42621>>, <<42623, 42623>>,
      <<42652, 42655>>, <<42736, 42737>>, <<42752, 42785>>, <<42864, 42864>>,
      <<42888, 42890>>, <<42994, 42996>>, <<43000, 43001>>, <<43010, 43010>>,
      <<43014, 43014>>, <<43019, 43019>>, <<43045, 43046>>, <<43052, 43052>>,
      <<43204, 43205>>, <<43232, 43249>>, <<43263, 43263>>, <<43302, 43309>>,
      <<43335, 43345>>, <<43392, 43394>>, <<43443, 43443>>, <<43446, 43449>>,
      <<43452, 43453>>, <<43471, 43471>>, <<43493, 43494>>, <<43561, 43566>>,
      <<43569, 43570>>, <<43573, 43574>>, <<43587, 43587>>, <<43596, 43596>>,
      <<43632, 43632>>, <<43644, 43644>>, <<43696, 43696>>, <<43698, 43700>>,
      <<43703, 43704>>, <<43710, 43711>>, <<43713, 43713>>, <<43741, 43741>>,
      <<43756, 43757>>, <<43763, 43764>>, <<43766, 43766>>, <<43867, 43871>>,
      <<43881, 43883>>, <<44005, 44005>>, <<44008, 44008>>, <<44013, 44013>>,
      <<64286, 64286>>, <<64434, 64450>>, <<65024, 65039>>, <<65043, 65043>>,
      <<65056, 65071>>, <<65106, 65106>>, <<65109, 65109>>, <<65279, 65279>>,
      <<65287, 65287>>, <<65294, 65294>>, <<65306, 65306>>, <<65342, 65342>>,
      <<65344, 65344>>, <<65392, 65392>>, <<65438, 65439>>, <<65507, 65507>>,
      <<65529, 65531>>, <<66045, 66045>>, <<66272, 66272>>, <<66422, 66426>>,
      <<67456, 67461>>, <<67463, 67504>>, <<67506, 67514>>, <<68097, 68099>>,
      <<68101, 68102>>, <<68108, 68111>>, <<68152, 68154>>, <<68159, 68159>>,
      <<68325, 68326>>, <<68900, 68903>>, <<69291, 69292>>, <<69446, 69456>>,
      <<69506, 69509>>, <<69633, 69633>>, <<69688, 69702>>, <<69744, 69744>>,
      <<69747, 69748>>, <<69759, 69761>>, <<69811, 69814>>, <<69817, 69818>>,
      <<69821, 69821>>, <<69826, 69826>>, <<69837, 69837>>, <<69888, 69890>>,
      <<69927, 69931>>, <<69933, 69940>>, <<70003, 70003>>, <<70016, 70017>>,
      <<70070, 70078>>, <<70089, 70092>>, <<70095, 70095>>, <<70191, 70193>>,
      <<70196, 70196>>, <<70198, 70199>>, <<70206, 70206>>, <<70367, 70367>>,
      <<70371, 70378>>, <<70400, 70401>>, <<70459, 70460>>, <<70464, 70464>>,
      <<70502, 70508>>, <<70512, 70516>>, <<70712, 70719>>, <<70722, 70724>>,
      <<70726, 70726>>, <<70750, 70750>>, <<70835, 70840>>, <<70842, 70842>>,
      <<70847, 70848>>, <<70850, 70851>>, <<71090, 71093>>, <<71100, 71101>>,
      <<71103, 71104>>, <<71132, 71133>>, <<71219, 71226>>, <<71229, 71229>>,
      <<71231, 71232>>, <<71339, 71339>>, <<71341, 71341>>, <<71344, 71349>>,
      <<71351, 71351>>, <<71453, 71455>>, <<71458, 71461>>, <<71463, 71467>>,
      <<71727, 71735>>, <<71737, 71738>>, <<71995, 71996>>, <<71998, 71998>>,
      <<72003, 72003>>, <<72148, 72151>>, <<72154, 72155>>, <<72160, 72160>>,
      <<72193, 72202>>, <<72243, 72248>>, <<72251, 72254>>, <<72263, 72263>>,
      <<72273, 72278>>, <<72281, 72283>>, <<72330, 72342>>, <<72344, 72345>>,
      <<72752, 72758>>, <<72760, 72765>>, <<72767, 72767>>, <<72850, 72871>>,
      <<72874, 72880>>, <<72882, 72883>>, <<72885, 72886>>, <<73009, 73014>>,
      <<73018, 73018>>, <<73020, 73021>>, <<73023, 73029>>, <<73031, 73031>>,
      <<73104, 73105>>, <<73109, 73109>>, <<73111, 73111>>, <<73459, 73460>>,
      <<78896, 78904>>, <<92912, 92916>>, <<92976, 92982>>, <<92992, 92995>>,
      <<94031, 94031>>, <<94095, 94111>>, <<94176, 94177>>, <<94179, 94180>>,
      <<110576, 110579>>, <<110581, 110587>>, <<110589, 110590>>,
      <<113821, 113822>>, <<113824, 113827>>, <<118528, 118573>>,
      <<118576, 118598>>, <<119143, 119145>>, <<119155, 119170>>,
      <<119173, 119179>>, <<119210, 119213>>, <<119362, 119364>>,
      <<121344, 121398>>, <<121403, 121452>>, <<121461, 121461>>,
      <<121476, 121476>>, <<121499, 121503>>, <<121505, 121519>>,
      <<122880, 122886>>, <<122888, 122904>>, <<122907, 122913>>,
      <<122915, 122916>>, <<122918, 122922>>, <<123184, 123197>>,
      <<123566, 123566>>, <<123628, 123631>>, <<125136, 125142>>,
      <<125252, 125259>>, <<127995, 127999>>, <<917505, 917505>>,
      <<917536, 917631>>, <<917760, 917999>>
    }

IsCaseIgnorable(c) == \E r \in CaseIgnorableRanges : c \in r[1]..r[2]

\* the ranges <<first, last>> of the cased characters (_PyUnicode_IsCased)
\* that are not case-ignorable; the scans of handle_capital_sigma test
\* IsCased only on a character that is not case-ignorable
CasedRanges ==
    {
      <<65, 90>>, <<97, 122>>, <<170, 170>>, <<181, 181>>, <<186, 186>>,
      <<192, 214>>, <<216, 246>>, <<248, 442>>, <<444, 447>>, <<452, 659>>,
      <<661, 687>>, <<880, 883>>, <<886, 887>>, <<891, 893>>, <<895, 895>>,
      <<902, 902>>, <<904, 906>>, <<908, 908>>, <<910, 929>>, <<931, 1013>>,
      <<1015, 1153>>, <<1162, 1327>>, <<1329, 1366>>, <<1376, 1416>>,
      <<4256, 4293>>, <<4295, 4295>>, <<4301, 4301>>, <<4304, 4346>>,
      <<4349, 4351>>, <<5024, 5109>>, <<5112, 5117>>, <<7296, 7304>>,
      <<7312, 7354>>, <<7357, 7359>>, <<7424, 7467>>, <<7531, 7543>>,
      <<7545, 7578>>, <<7680, 7957>>, <<7960, 7965>>, <<7968, 8005>>,
      <<8008, 8013>>, <<8016, 8023>>, <<8025, 8025>>, <<8027, 8027>>,
      <<8029, 8029>>, <<8031, 8061>>, <<8064, 8116>>, <<8118, 8124>>,
      <<8126, 8126>>, <<8130, 8132>>, <<8134, 8140>>, <<8144, 8147>>,
      <<8150, 8155>>, <<8160, 8172>>, <<8178, 8180>>, <<8182, 8188>>,
      <<8450, 8450>>, <<8455, 8455>>, <<8458, 8467>>, <<8469, 8469>>,
      <<8473, 8477>>, <<8484, 8484>>, <<8486, 8486>>, <<8488, 8488>>,
      <<8490, 8493>>, <<8495, 8500>>, <<8505, 8505>>, <<8508, 8511>>,
      <<8517, 8521>>, <<8526, 8526>>, <<8544, 8575>>, <<8579, 8580>>,
      <<9398, 9449>>, <<11264, 11387>>, <<11390, 11492>>, <<11499, 11502>>,
      <<11506, 11507>>, <<11520, 11557>>, <<11559, 11559>>, <<11565, 11565>>,
      <<42560, 42605>>, <<42624, 42651>>, <<42786, 42863>>, <<42865, 42887>>,
      <<42891, 42894>>, <<42896, 42954>>, <<42960, 42961>>, <<42963, 42963>>,
      <<42965, 42969>>, <<42997, 42998>>, <<43002, 43002>>, <<43824, 43866>>,
      <<43872, 43880>>, <<43888, 43967>>, <<64256, 64262>>, <<64275, 64279>>,
      <<65313, 65338>>, <<65345, 65370>>, <<66560, 66639>>, <<66736, 66771>>,
      <<66776, 66811>>, <<66928, 66938>>, <<66940, 66954>>, <<66956, 66962>>,
      <<66964, 66965>>, <<66967, 66977>>, <<66979, 66993>>, <<66995, 67001>>,
      <<67003, 67004>>, <<68736, 68786>>, <<68800, 68850>>, <<71840, 71903>>,
      <<93760, 93823>>, <<119808, 119892>>, <<119894, 119964>>,
      <<119966, 119967>>, <<119970, 119970>>, <<119973, 119974>>,
      <<119977, 119980>>, <<119982, 119993>>, <<119995, 119995>>,
      <<119997, 120003>>, <<120005, 120069>>, <<120071, 120074>>,
      <<120077, 120084>>, <<120086, 120092>>, <<120094, 120121>>,
      <<120123, 120126>>, <<120128, 120132>>, <<120134, 120134>>,
      <<120138, 120144>>, <<120146, 120485>>, <<120488, 120512>>,
      <<120514, 120538>>, <<120540, 120570>>, <<120572, 120596>>,
      <<120598, 120628>>, <<120630, 120654>>, <<120656, 120686>>,
      <<120688, 120712>>, <<120714, 120744>>, <<120746, 120770>>,
      <<120772, 120779>>, <<122624, 122633>>, <<122635, 122654>>,
      <<125184, 125251>>, <<127280, 127305>>, <<127312, 127337>>,
      <<127344, 127369>>
    }

IsCased(c) == \E r \in CasedRanges : c \in r[1]..r[2]

\* the capital sigma U+03A3 at place i of s becomes the final sigma U+03C2
\* when the nearest character before it that is not case-ignorable is cased
\* and the nearest such character after it, if any, is not; else the small
\* sigma U+03C3
handle_capital_sigma(s, i) ==
    LET cased_before ==
            \E j \in 1..(i - 1) :
                /\ IsCased(s[j])
                /\ \A k \in (j + 1)..(i - 1) : IsCaseIgnorable(s[k])
        cased_after ==
            \E j \in (i + 1)..Len(s) :
                /\ IsCased(s[j])
                /\ \A k \in (i + 1)..(j - 1) : IsCaseIgnorable(s[k])
    IN  IF cased_before /\ ~cased_after THEN 962 ELSE 963

\* the loop of str.lower() over the characters of s, from place i on
RECURSIVE LowerFrom(_, _)
LowerFrom(s, i) ==
    IF i > Len(s) THEN <<>>
    ELSE (IF s[i] = 931 THEN <<handle_capital_sigma(s, i)>>
          ELSE LowerChar(s[i]))
         \o LowerFrom(s, i + 1)

\* str.lower()
Lower(s) == LowerFrom(s, 1)

\* the ranges <<first, last>> of the whitespace characters (str.isspace())
SpaceRanges ==
    {
      <<9, 13>>, <<28, 32>>, <<133, 133>>, <<160, 160>>, <<5760, 5760>>,
      <<8192, 8202>>, <<8232, 8233>>, <<8239, 8239>>, <<8287, 8287>>,
      <<12288, 12288>>
    }

\* the whitespace characters
SpaceChars == UNION {r[1]..r[2] : r \in SpaceRanges}

\* str.isspace() of one character: what str.strip() removes
IsSpace(c) == c \in SpaceChars

RECURSIVE LStrip(_)
LStrip(s) ==
    IF s # <<>> /\ IsSpace(Head(s)) THEN LStrip(Tail(s)) ELSE s

RECURSIVE RStrip(_)
RStrip(s) ==
    IF s # <<>> /\ IsSpace(s[Len(s)]) THEN RStrip(SubSeq(s, 1, Len(s) - 1)) ELSE s

\* str.strip()
Strip(s) == RStrip(LStrip(s))

\* Python's `sub in s` on strings
Contains(sub, s) ==
    \E i \in 0..(Len(s) - Len(sub)) : SubSeq(s, i + 1, i + Len(sub)) = sub

\* all strings over chars of length at most n
StringsUpTo(chars, n) == UNION {[1..k -> chars] : k \in 0..n}

\* all sequences over S of length at most n
SeqsUpTo(S, n) == UNION {[1..k -> S] : k \in 0..n}

-----------------------------------------------------------------------------
(* MedicationSafetyEngine.__init__ *)

\* position of the key id in the dict d, 0 when absent
RECURSIVE KeyIndex(_, _, _)
KeyIndex(d, id, i) ==
    IF i > Len(d) THEN 0
    ELSE IF d[i].id = id THEN i
    ELSE KeyIndex(d, id, i + 1)

\* {med["id"]: med for med in MEDICATION_DB["medications"]}: a repeated key
\* keeps its first position and takes the last value.
RECURSIVE MedicationsById(_, _)
MedicationsById(meds, d) ==
    IF meds = <<>> THEN d
    ELSE LET med == Head(meds)
             k == KeyIndex(d, med.id, 1)
         IN  MedicationsById(Tail(meds),
                 IF k = 0 THEN Append(d, med) ELSE [d EXCEPT ![k] = med])

\* no invocation in progress
Idle == [op |-> "idle"]

\* an invocation returns to its caller: its frame is gone, the engine's two
\* fields are as they were (no method writes them)
Return ==
    /\ call # Idle
    /\ call' = Idle
    /\ result' = None
    /\ UNCHANGED <<medications, interactions>>

\* the engine after construction from a loaded dataset
EngineInit(db) ==
    /\ medications = MedicationsById(db.medications, <<>>)
    /\ interactions = db.interactions
    /\ call = Idle
    /\ result = None

-----------------------------------------------------------------------------
(* find_medication *)

\* lines 98-100: the exact-match test of one drug
ExactMatch(med, name_lower) ==
    \/ Lower(med.name) = name_lower
    \/ Lower(med.generic_name) = name_lower
    \/ \E b \in 1..Len(med.brand_names) : Lower(med.brand_names[b]) = name_lower

\* lines 104-106: the partial-match test of one drug
PartialMatch(med, name_lower) ==
    \/ Contains(name_lower, Lower(med.name))
    \/ Contains(name_lower, Lower(med.generic_name))
    \/ \E b \in 1..Len(med.brand_names) :
           Contains(name_lower, Lower(med.brand_names[b]))

\* the loop of lines 96-109 from the i-th drug on: per drug, the exact test
\* and then the partial test, before the next drug is looked at
RECURSIVE FindFrom(_, _)
FindFrom(i, name_lower) ==
    IF i > Len(medications) THEN None
    ELSE LET med == medications[i]
         IN  IF ExactMatch(med, name_lower) THEN med
             ELSE IF PartialMatch(med, name_lower) THEN med
             ELSE FindFrom(i + 1, name_lower)

\* a plausible slip: the loop keeps the last matching drug instead of
\* returning the first
RECURSIVE FindLastFrom(_, _, _)
FindLastFrom(i, name_lower, best) ==
    IF i > Len(medications) THEN best
    ELSE LET med == medications[i]
         IN  FindLastFrom(i + 1, name_lower,
                 IF ExactMatch(med, name_lower) \/ PartialMatch(med, name_lower)
                 THEN med ELSE best)

find_medication_last(name) == FindLastFrom(1, Lower(Strip(name)), None)

find_medication(name) == FindFrom(1, Strip(Lower(name)))

\* the engine method, called directly
FindMedication(name) ==
    /\ call = Idle
    /\ call' = [op |-> "find_medication", arg |-> name]
    /\ result' = find_medication(name)
    /\ UNCHANGED <<medications, interactions>>

\* GET /api/medication/{med_name}
GetMedicationInfo(med_name) ==
    /\ call = Idle
    /\ call' = [op |-> "get_medication_info", arg |-> med_name]
    /\ result' = LET med == find_medication(med_name)
                 IN  IF ~Truthy(med)
                     THEN [error |-> 404, detail |-> "Medication not found"]
                     ELSE med
    /\ UNCHANGED <<medications, interactions>>

-----------------------------------------------------------------------------
(* Datasets and calls of the name-resolution specification *)

\* names a drug of these datasets may bear (display, generic or brand):
\* "A" and "aB"
NamePool == { <<65>>, <<97, 66>> }

BrandLists == {<<>>} \cup {<<n>> : n \in NamePool}

\* the drug with identifier id: any names, no black-box warning
FindDrugs(id) ==
    [id : {id}, name : NamePool, generic_name : NamePool,
     brand_names : BrandLists, black_box_warning : {None}]

\* datasets of k drugs with identifiers 1..k in list order
FindMedLists ==
    UNION { {m \in [1..k -> UNION {FindDrugs(i) : i \in 1..k}] :
                \A i \in 1..k : m[i].id = i} : k \in 0..MaxMeds }

\* the characters of a query: "a", "A", "b" and the space
QueryChars == {97, 65, 98, 32}

Queries == StringsUpTo(QueryChars, MaxQueryLen)

InitFind ==
    \E meds \in FindMedLists :
        EngineInit([medications |-> meds, interactions |-> <<>>])

NextFind ==
    \/ \E name \in Queries : FindMedication(name)
    \/ \E name \in Queries : GetMedicationInfo(name)
    \/ Return

SpecFind == InitFind /\ [][NextFind]_vars

-----------------------------------------------------------------------------
(* check_interactions *)

\* Python's `x in lst` on a list
InList(x, lst) == \E k \in 1..Len(lst) : lst[k] = x

\* the loop of lines 115-120 from the i-th record on
RECURSIVE CheckFrom(_, _, _)
CheckFrom(i, med_ids, found_interactions) ==
    IF i > Len(interactions) THEN found_interactions
    ELSE LET interaction == interactions[i]
             drug_a_id == interaction.drug_a
             drug_b_id == interaction.drug_b
         IN  CheckFrom(i + 1, med_ids,
                 IF InList(drug_a_id, med_ids) /\ InList(drug_b_id, med_ids)
                 THEN Append(found_interactions, interaction)
                 ELSE found_interactions)

\* a plausible slip: `or` for `and` in the membership test of line 119
RECURSIVE CheckEitherFrom(_, _, _)
CheckEitherFrom(i, med_ids, found_interactions) ==
    IF i > Len(interactions) THEN found_interactions
    ELSE LET interaction == interactions[i]
         IN  CheckEitherFrom(i + 1, med_ids,
                 IF InList(interaction.drug_a, med_ids) \/ InList(interaction.drug_b, med_ids)
                 THEN Append(found_interactions, interaction)
                 ELSE found_interactions)

check_interactions_either(med_ids) == CheckEitherFrom(1, med_ids, <<>>)

\* a plausible slip: the scan driven by the identifier list, one pass over
\* the records per identifier, which returns a record once per occurrence of
\* its drug_a in the list
RECURSIVE CheckPerId(_, _, _)
CheckPerId(k, med_ids, found_interactions) ==
    IF k > Len(med_ids) THEN found_interactions
    ELSE CheckPerId(k + 1, med_ids,
             found_interactions \o
             SelectSeq(interactions, LAMBDA interaction :
                 interaction.drug_a = med_ids[k] /\ InList(interaction.drug_b, med_ids)))

check_interactions_per_id(med_ids) == CheckPerId(1, med_ids, <<>>)

check_interactions(med_ids) == CheckFrom(1, med_ids, <<>>)

\* the engine method, called directly
CheckInteractions(med_ids) ==
    /\ call = Idle
    /\ call' = [op |-> "check_interactions", arg |-> med_ids]
    /\ result' = check_interactions(med_ids)
    /\ UNCHANGED <<medications, interactions>>

-----------------------------------------------------------------------------
(* _generate_recommendations *)

\* A recommendation line is a tuple of its parts: a fixed line is its text
\* (without the pictograph and the indentation the source puts before it),
\* a formatted line is its arrow followed by the values formatted into it.

CriticalHeader == <<"CRITICAL: This combination is CONTRAINDICATED. Do NOT use together without specialist consultation.">>
DangerousHeader == <<"DANGEROUS: Serious interaction risk detected. Requires immediate medical review.">>
WarningHeader == <<"WARNING: Major interactions detected. Close monitoring required.">>
BlackBoxHeader == <<"BLACK BOX WARNINGS:">>
GeneralHeader == <<"General Recommendations:">>

\* the four fixed lines that follow the general header
GeneralLines ==
    << <<"Consult prescribing physician or pharmacist immediately">>,
       <<"Do not start, stop, or change doses without medical supervision">>,
       <<"Monitor for signs of adverse effects">>,
       <<"Keep all healthcare providers informed of all medications">> >>

\* f"   -> {flag['recommendation']}"
FlagLine(flag) == <<"->", flag.recommendation>>

\* bbw['warning'] of line 227 raises KeyError for a truthy warning object
\* without that key; the exception leaves analyze_medications before any
\* result is built
BlackBoxKeyError(meds) ==
    \E k \in DOMAIN meds :
        /\ Truthy(meds[k].black_box_warning)
        /\ "warning" \notin DOMAIN meds[k].black_box_warning

\* f"   -> {med['name']}: {bbw['warning']}"
BlackBoxLine(med) == <<"->", med.name, ":", med.black_box_warning.warning>>

\* the loops of lines 208-209, 213-214 and 218-219: one line per interaction
FlagLines(flags) == [k \in 1..Len(flags) |-> FlagLine(flags[k])]

\* the loop of lines 225-227: one line per drug with a warning
BlackBoxLines(bbw_meds) == [k \in 1..Len(bbw_meds) |-> BlackBoxLine(bbw_meds[k])]

\* `if items:` a header and the items' lines, else nothing
Section(header, lines) ==
    IF lines # <<>> THEN <<header>> \o lines ELSE <<>>

\* a plausible slip: the general block also after ORANGE_FLAG findings, and
\* ahead of the black-box section
generate_recommendations_general_first(meds, black_flags, red_flags, orange_flags) ==
    LET bbw_meds == SelectSeq(meds, LAMBDA m : Truthy(m.black_box_warning))
    IN  Section(CriticalHeader, FlagLines(black_flags))
        \o Section(DangerousHeader, FlagLines(red_flags))
        \o Section(WarningHeader, FlagLines(orange_flags))
        \o (IF black_flags # <<>> \/ red_flags # <<>> \/ orange_flags # <<>>
            THEN <<GeneralHeader>> \o GeneralLines ELSE <<>>)
        \o Section(BlackBoxHeader, BlackBoxLines(bbw_meds))

generate_recommendations(meds, black_flags, red_flags, orange_flags) ==
    LET bbw_meds == SelectSeq(meds, LAMBDA m : Truthy(m.black_box_warning))
    IN  Section(CriticalHeader, FlagLines(black_flags))
        \o Section(DangerousHeader, FlagLines(red_flags))
        \o Section(WarningHeader, FlagLines(orange_flags))
        \o Section(BlackBoxHeader, BlackBoxLines(bbw_meds))
        \o (IF black_flags # <<>> \/ red_flags # <<>>
            THEN <<GeneralHeader>> \o GeneralLines ELSE <<>>)

-----------------------------------------------------------------------------
(* analyze_medications *)

\* the loop of lines 130-134: the drugs the names resolve to, in input order
RECURSIVE FoundMeds(_, _)
FoundMeds(medication_names, found_meds) ==
    IF medication_names = <<>> THEN found_meds
    ELSE LET med == find_medication(Head(medication_names))
         IN  FoundMeds(Tail(medication_names),
                 IF Truthy(med) THEN Append(found_meds, med) ELSE found_meds)

\* a plausible slip: the ORANGE_FLAG comprehension copied from the
\* YELLOW_FLAG one with its test widened instead of replaced
SeverityBucketWidened(found, tag) ==
    SelectSeq(found, LAMBDA i :
        \/ i.severity = tag
        \/ (tag = "ORANGE_FLAG" /\ i.severity = "YELLOW_FLAG"))

\* the list comprehensions of lines 143-147
SeverityBucket(found, tag) == SelectSeq(found, LAMBDA i : i.severity = tag)

\* a plausible slip: the RED_FLAG rung tested ahead of the BLACK_FLAG one
OverallRiskRedFirst(black_flags, red_flags, orange_flags, yellow_flags) ==
    IF red_flags # <<>> THEN "HIGH - DANGEROUS COMBINATION"
    ELSE IF black_flags # <<>> THEN "CRITICAL - CONTRAINDICATED COMBINATION"
    ELSE IF orange_flags # <<>> THEN "MODERATE-HIGH - MAJOR WARNINGS"
    ELSE IF yellow_flags # <<>> THEN "MODERATE - MONITOR CLOSELY"
    ELSE "LOW - GENERALLY SAFE"

\* the ladder of lines 150-159
OverallRisk(black_flags, red_flags, orange_flags, yellow_flags) ==
    IF black_flags # <<>> THEN "CRITICAL - CONTRAINDICATED COMBINATION"
    ELSE IF red_flags # <<>> THEN "HIGH - DANGEROUS COMBINATION"
    ELSE IF orange_flags # <<>> THEN "MODERATE-HIGH - MAJOR WARNINGS"
    ELSE IF yellow_flags # <<>> THEN "MODERATE - MONITOR CLOSELY"
    ELSE "LOW - GENERALLY SAFE"

\* DrugProfile(...) of lines 169-178 (the fields the model carries)
DrugProfile(med) ==
    [name |-> med.name, generic_name |-> med.generic_name,
     brand_names |-> med.brand_names,
     black_box_warning |-> med.black_box_warning]

NotFound404 == [error |-> 404, detail |-> "No medications found in database"]

\* the KeyError of line 227 as POST /api/check answers it (lines 266-267):
\* status 500 with str(e), the quoted key
KeyError500 == [error |-> 500, detail |-> "'warning'"]

\* lines 139-200, once the names are resolved
AnalysisOf(found_meds) ==
    LET med_ids == [k \in 1..Len(found_meds) |-> found_meds[k].id]
        found == check_interactions(med_ids)
        black_flags == SeverityBucket(found, "BLACK_FLAG")
        red_flags == SeverityBucket(found, "RED_FLAG")
        orange_flags == SeverityBucket(found, "ORANGE_FLAG")
        yellow_flags == SeverityBucket(found, "YELLOW_FLAG")
        green_flags == SeverityBucket(found, "GREEN_FLAG")
    IN  [analyzed_medications |->
             [k \in 1..Len(found_meds) |-> DrugProfile(found_meds[k])],
         interactions |-> found,
         black_flags |-> black_flags,
         red_flags |-> red_flags,
         orange_flags |-> orange_flags,
         yellow_flags |-> yellow_flags,
         green_flags |-> green_flags,
         overall_risk_level |->
             OverallRisk(black_flags, red_flags, orange_flags, yellow_flags),
         risk_summary |->
             [total_medications |-> Len(found_meds),
              total_interactions |-> Len(found),
              black_flags |-> Len(black_flags),
              red_flags |-> Len(red_flags),
              orange_flags |-> Len(orange_flags),
              yellow_flags |-> Len(yellow_flags),
              green_flags |-> Len(green_flags),
              medications_with_black_box_warnings |->
                  Len(SelectSeq(found_meds, LAMBDA m : Truthy(m.black_box_warning)))],
         clinical_recommendations |->
             generate_recommendations(found_meds, black_flags, red_flags, orange_flags)]

\* a plausible slip: the request is rejected as soon as one name is unknown
analyze_medications_strict(medication_names) ==
    LET found_meds == FoundMeds(medication_names, <<>>)
    IN  IF Len(found_meds) < Len(medication_names) \/ found_meds = <<>>
        THEN NotFound404
        ELSE IF BlackBoxKeyError(found_meds) THEN KeyError500
        ELSE AnalysisOf(found_meds)

analyze_medications(medication_names) ==
    LET found_meds == FoundMeds(medication_names, <<>>)
    IN  IF found_meds = <<>> THEN NotFound404
        ELSE IF BlackBoxKeyError(found_meds) THEN KeyError500
        ELSE AnalysisOf(found_meds)

\* the engine method (POST /api/check hands it request.medications and
\* passes its HTTPException on, any other exception as status 500)
AnalyzeMedications(medication_names) ==
    /\ call = Idle
    /\ call' = [op |-> "analyze_medications", arg |-> medication_names]
    /\ result' = analyze_medications(medication_names)
    /\ UNCHANGED <<medications, interactions>>

-----------------------------------------------------------------------------
(* Datasets and calls of the two analysis specifications *)

\* The datasets are those the schema of lines 42-73 accepts: a severity is
\* one of the five SeverityFlag values, drug_a and drug_b are any
\* identifiers (the load of lines 26-40 and 88-90 checks neither that they
\* name a drug nor that they differ).

\* a black-box warning object with its warning text
BlackBox(text) == [warning |-> text]

\* a warning object that has a category and no warning text
BlackBoxNoText == [category |-> "boxed"]

\* three drugs whose names share no substring: "A" / "a" with the brand
\* alias "X", "B" / "b", and "c" / "c", which always carries a black-box
\* warning
DrugA(bbw) ==
    [id |-> "id_a", name |-> <<65>>, generic_name |-> <<97>>,
     brand_names |-> << <<88>> >>, black_box_warning |-> bbw]
DrugB(bbw) ==
    [id |-> "id_b", name |-> <<66>>, generic_name |-> <<98>>,
     brand_names |-> <<>>, black_box_warning |-> bbw]
DrugC ==
    [id |-> "id_c", name |-> <<99>>, generic_name |-> <<99>>,
     brand_names |-> <<>>, black_box_warning |-> BlackBox("warning c")]

\* an identifier no drug of a dataset has (a dangling reference)
GhostId == "id_ghost"

SeverityFlag ==
    {"BLACK_FLAG", "RED_FLAG", "ORANGE_FLAG", "YELLOW_FLAG", "GREEN_FLAG"}

\* an interaction record; its recommendation text names its place in the
\* dataset, so that every record of a dataset has a text of its own
Interaction(pair, severity, k) ==
    [drug_a |-> pair[1], drug_b |-> pair[2], severity |-> severity,
     recommendation |-> <<"rec", k>>]

\* the interaction lists of at most n records, each of a kind (endpoints,
\* severity) in kinds
InteractionLists(kinds, n) ==
    UNION { { [k \in 1..len |-> Interaction(c[k][1], c[k][2], k)] :
                  c \in [1..len -> kinds] } : len \in 0..n }

\* lookup datasets: drugs a and b (or no drug), records between any two of
\* a, b and the dangling identifier, a record of a drug with itself included
LookupIds == {"id_a", "id_b", GhostId}

LookupDatasets ==
    [medications : {<<>>, <<DrugA(None), DrugB(None)>>},
     interactions : InteractionLists((LookupIds \X LookupIds) \X {"RED_FLAG"},
                                     MaxInteractions)]

\* names handed to analyze_medications: the generic name "a" and the brand
\* alias "X" of a, the display name "B" of b, a name of no drug ("z"), a
\* blank (" ")
LookupNames == { <<97>>, <<88>>, <<66>>, <<122>>, <<32>> }

InitLookup == \E db \in LookupDatasets : EngineInit(db)

NextLookup ==
    \/ \E med_ids \in SeqsUpTo(LookupIds, MaxNames) : CheckInteractions(med_ids)
    \/ \E names \in SeqsUpTo(LookupNames, MaxNames) : AnalyzeMedications(names)
    \/ Return

SpecLookup == InitLookup /\ [][NextLookup]_vars

\* severity datasets: drugs a, b and c, records a-b of every severity and
\* records b-c of the two extreme ones; the black_box_warning of a is absent,
\* a warning with its text or a warning object without text, that of b is
\* absent or the empty object (the load of lines 26-40 checks no record)
SeverityKinds ==
    ({<<"id_a", "id_b">>} \X SeverityFlag)
        \cup ({<<"id_b", "id_c">>} \X {"BLACK_FLAG", "GREEN_FLAG"})

SeverityDatasets ==
    [medications : { <<DrugA(w), DrugB(v), DrugC>> :
                         w \in {None, BlackBox("warning a"), BlackBoxNoText},
                         v \in {None, EmptyDict} },
     interactions : InteractionLists(SeverityKinds, MaxFlagged)]

\* "a", "b" and "C"
SeverityNames == { <<97>>, <<98>>, <<67>> }

InitSeverity == \E db \in SeverityDatasets : EngineInit(db)

NextSeverity ==
    \/ \E names \in SeqsUpTo(SeverityNames, MaxNames) : AnalyzeMedications(names)
    \/ Return

SpecSeverity == InitSeverity /\ [][NextSeverity]_vars

-----------------------------------------------------------------------------
(* Vocabulary of the properties *)

Min(S) == CHOOSE x \in S : \A y \in S : x <= y

\* the display name, the generic name and the brand aliases of a drug
NamesOf(med) ==
    {med.name, med.generic_name}
        \cup {med.brand_names[b] : b \in DOMAIN med.brand_names}

\* s equals one of the drug's names, ignoring case
BearsName(med, s) == \E n \in NamesOf(med) : Lower(n) = Lower(s)

\* one of the drug's names contains s, ignoring case
HasNameContaining(med, s) == \E n \in NamesOf(med) : Contains(Lower(s), Lower(n))

FindCalled == call.op = "find_medication"

\* the places, in iteration order, of the drugs that match the trimmed
\* argument of the current call exactly, and as a substring
ExactPlaces == {i \in DOMAIN medications : BearsName(medications[i], Strip(call.arg))}
SubstringPlaces ==
    {i \in DOMAIN medications : HasNameContaining(medications[i], Strip(call.arg))}

-----------------------------------------------------------------------------
(* Name resolution: C1, C2, C3, C10 (under SpecFind) *)

\* C1: find_medication on a string that equals, ignoring case, a display
\* name, generic name or brand alias of a drug d returns d, whatever other
\* drugs the Knowledge Base holds and wherever d sits.  Stated for the drugs
\* d whose name no other drug bears, where "d itself" is unambiguous.
\* The code returns an earlier drug that merely contains the string.
C1_ExactNameReturnsThatDrug ==
    FindCalled =>
        \A i \in DOMAIN medications :
            ( /\ BearsName(medications[i], call.arg)
              /\ \A j \in DOMAIN medications \ {i} :
                     ~BearsName(medications[j], call.arg) )
            => result = medications[i]

\* C2: find_medication on the empty string or on a whitespace-only string
\* returns not-found, for every Knowledge Base.  The code returns the first
\* drug of a non-empty Knowledge Base.
C2_BlankIsNotFound ==
    (FindCalled /\ Strip(call.arg) = <<>>) => result = None

\* C3: whenever some drug matches the normalized input exactly, the result
\* is the first exactly-matching drug in iteration order, even if an earlier
\* drug contains the input as a substring (a substring match is returned
\* only when no drug of the whole Knowledge Base matches exactly).  The code
\* tests both per drug and returns the earlier substring match.
C3_ExactPassBeforeSubstringPass ==
    (FindCalled /\ ExactPlaces # {}) => result = medications[Min(ExactPlaces)]

\* C10: when the query matches no drug exactly and two or more drugs as a
\* substring, find_medication returns the matching drug that comes earliest
\* in iteration order.
C10_EarliestSubstringMatch ==
    (FindCalled /\ ExactPlaces = {} /\ Cardinality(SubstringPlaces) >= 2)
        => result = medications[Min(SubstringPlaces)]

\* a non-blank query no drug matches exactly and two drugs contain, the
\* first of which does not contain it in its display name
C10_Witness ==
    /\ FindCalled
    /\ Strip(call.arg) # <<>>
    /\ ExactPlaces = {}
    /\ Cardinality(SubstringPlaces) >= 2
    /\ ~Contains(Lower(Strip(call.arg)), Lower(medications[1].name))
    /\ result = medications[1]

-----------------------------------------------------------------------------
(* Vocabulary of the analysis properties *)

AnalyzeCalled == call.op = "analyze_medications"

\* the call returned a SafetyAnalysisResponse
AnalyzeReturned == AnalyzeCalled /\ "error" \notin DOMAIN result

\* the names of the current call that find_medication resolves, in order
ResolvedNames == SelectSeq(call.arg, LAMBDA n : find_medication(n) # None)

\* the identifiers those names resolve to
ResolvedIds == {find_medication(ResolvedNames[k]).id : k \in DOMAIN ResolvedNames}

\* the elements of a sequence
Range(seq) == {seq[k] : k \in DOMAIN seq}

\* the places of the dataset's records with both endpoints in ids
PlacesWithin(ids) ==
    {i \in DOMAIN interactions :
        interactions[i].drug_a \in ids /\ interactions[i].drug_b \in ids}

\* the place of a record in the dataset (every record of a dataset carries a
\* recommendation text of its own)
PlaceOf(rec) == CHOOSE i \in DOMAIN interactions : interactions[i] = rec

\* some found interaction has this severity
Present(tag) == \E k \in DOMAIN result.interactions : result.interactions[k].severity = tag

-----------------------------------------------------------------------------
(* Batch resolution and interaction lookup: C4, C5, C6 (under SpecLookup) *)

\* C4: analyze_medications raises the 404 not-found error exactly when none
\* of the input names resolves through find_medication (the empty list and a
\* list of unknown names included); otherwise it returns a result whose
\* analyzed_medications are the resolved drugs in input order, the
\* unresolved names left out, and whose interactions have both endpoints
\* among the resolved identifiers.
C4_NotFoundIffNothingResolves ==
    AnalyzeCalled =>
        /\ (result = NotFound404) <=> (ResolvedNames = <<>>)
        /\ ResolvedNames # <<>> =>
               /\ "error" \notin DOMAIN result
               /\ result.analyzed_medications =
                      [k \in DOMAIN ResolvedNames |->
                          DrugProfile(find_medication(ResolvedNames[k]))]
               /\ result.risk_summary.total_medications = Len(ResolvedNames)
               /\ \A k \in DOMAIN result.interactions :
                      /\ result.interactions[k].drug_a \in ResolvedIds
                      /\ result.interactions[k].drug_b \in ResolvedIds

\* a list of one unknown name and one known name is analyzed, the known
\* drug alone in the result
\* (the names "z" and "B")
C4_Witness ==
    /\ AnalyzeCalled
    /\ call.arg = << <<122>>, <<66>> >>
    /\ result # NotFound404
    /\ Len(result.analyzed_medications) = 1

\* the same drug resolved by two different strings of the current call
ResolvedTwice ==
    /\ AnalyzeCalled
    /\ \E j, k \in DOMAIN call.arg :
           /\ j < k
           /\ call.arg[j] # call.arg[k]
           /\ find_medication(call.arg[j]) # None
           /\ find_medication(call.arg[j]) = find_medication(call.arg[k])

\* the drug resolved twice occurs twice among the analyzed medications
AppearsTwice ==
    \E j, k \in DOMAIN result.analyzed_medications :
        j < k /\ result.analyzed_medications[j] = result.analyzed_medications[k]

\* C5 as stated: with the same drug resolved twice via two different input
\* strings, no returned interaction has drug_a equal to drug_b, and the drug
\* appears twice in analyzed_medications.
C5_NeverSelfInteraction ==
    ResolvedTwice =>
        /\ \A k \in DOMAIN result.interactions :
               result.interactions[k].drug_a # result.interactions[k].drug_b
        /\ AppearsTwice

\* C5 as amended: with the same drug resolved twice via two different input
\* strings, the returned interactions are the dataset's records with both
\* endpoints among the resolved identifiers, each once: resolving the drug
\* twice adds no record, and a record with drug_a equal to drug_b is
\* returned only when the dataset itself holds it; the drug appears twice in
\* analyzed_medications.
C5_NoSelfInteractionBeyondDataset ==
    ResolvedTwice =>
        /\ Len(result.interactions) = Cardinality(PlacesWithin(ResolvedIds))
        /\ \A k \in DOMAIN result.interactions :
               result.interactions[k].drug_a = result.interactions[k].drug_b
                   => \E i \in PlacesWithin(ResolvedIds) :
                          /\ interactions[i] = result.interactions[k]
                          /\ interactions[i].drug_a = interactions[i].drug_b
        /\ AppearsTwice

\* drug a resolved by its generic name and by its brand alias, in a dataset
\* that holds a record of a with itself and a record of a with b
\* (the names "a" and "X")
C5_Witness ==
    /\ ResolvedTwice
    /\ call.arg = << <<97>>, <<88>> >>
    /\ Len(interactions) = 2
    /\ Len(result.interactions) = 1
    /\ result.interactions[1].drug_a = result.interactions[1].drug_b
    /\ Len(result.analyzed_medications) = 2

\* C6: check_interactions returns exactly the records whose drug_a and
\* drug_b are both in the identifier list: each such record once, also when
\* an identifier occurs several times in the list, in dataset order, and no
\* record with an endpoint outside the list; for a list of identifiers of
\* drugs of the Knowledge Base, no record with a dangling reference.
C6_ExactlyTheRecordsWithin ==
    call.op = "check_interactions" =>
        LET ids == Range(call.arg)
            known == {medications[i].id : i \in DOMAIN medications}
        IN  /\ \A k \in DOMAIN result :
                   result[k].drug_a \in ids /\ result[k].drug_b \in ids
            /\ \A i \in PlacesWithin(ids) :
                   Cardinality({k \in DOMAIN result : result[k] = interactions[i]}) = 1
            /\ \A j, k \in DOMAIN result :
                   j < k => PlaceOf(result[j]) < PlaceOf(result[k])
            /\ ids \subseteq known =>
                   \A k \in DOMAIN result :
                       result[k].drug_a \in known /\ result[k].drug_b \in known

\* an identifier list with a repeated identifier, over a dataset with a
\* record within the list (returned once) and a record with a dangling
\* endpoint (not returned)
C6_Witness ==
    /\ call.op = "check_interactions"
    /\ call.arg = <<"id_a", "id_a">>
    /\ Len(interactions) = 2
    /\ interactions[1].drug_b = GhostId
    /\ medications # <<>>
    /\ result = <<interactions[2]>>

-----------------------------------------------------------------------------
(* Severity, verdict and recommendations: C7, C8, C9 (under SpecSeverity) *)

\* C7: the overall risk verdict depends only on which severity tiers are
\* present among the found interactions, by strict precedence: CRITICAL if
\* any BLACK_FLAG, else HIGH if any RED_FLAG, else MODERATE-HIGH if any
\* ORANGE_FLAG, else MODERATE if any YELLOW_FLAG, else LOW (no interaction,
\* or only GREEN_FLAG ones), whatever the count in a tier.
C7_VerdictByPrecedence ==
    AnalyzeReturned =>
        result.overall_risk_level =
            CASE Present("BLACK_FLAG") -> "CRITICAL - CONTRAINDICATED COMBINATION"
              [] ~Present("BLACK_FLAG") /\ Present("RED_FLAG") ->
                     "HIGH - DANGEROUS COMBINATION"
              [] ~Present("BLACK_FLAG") /\ ~Present("RED_FLAG")
                     /\ Present("ORANGE_FLAG") ->
                     "MODERATE-HIGH - MAJOR WARNINGS"
              [] ~Present("BLACK_FLAG") /\ ~Present("RED_FLAG")
                     /\ ~Present("ORANGE_FLAG") /\ Present("YELLOW_FLAG") ->
                     "MODERATE - MONITOR CLOSELY"
              [] OTHER -> "LOW - GENERALLY SAFE"

\* one BLACK_FLAG and two RED_FLAG interactions found: the verdict is the
\* BLACK_FLAG one
C7_Witness ==
    /\ AnalyzeReturned
    /\ result.risk_summary.black_flags = 1
    /\ result.risk_summary.red_flags = 2
    /\ result.overall_risk_level = "CRITICAL - CONTRAINDICATED COMBINATION"

\* the five buckets of a result, by their field names
Buckets ==
    [BLACK_FLAG |-> result.black_flags, RED_FLAG |-> result.red_flags,
     ORANGE_FLAG |-> result.orange_flags, YELLOW_FLAG |-> result.yellow_flags,
     GREEN_FLAG |-> result.green_flags]

\* C8: in every result the five bucket counts of risk_summary sum to
\* total_interactions, the five buckets are pairwise disjoint, and together
\* they hold every found interaction.
C8_BucketsPartitionTheInteractions ==
    AnalyzeReturned =>
        /\ result.risk_summary.black_flags + result.risk_summary.red_flags
               + result.risk_summary.orange_flags + result.risk_summary.yellow_flags
               + result.risk_summary.green_flags
           = result.risk_summary.total_interactions
        /\ result.risk_summary.total_interactions = Len(result.interactions)
        /\ \A s, t \in SeverityFlag :
               s # t => Range(Buckets[s]) \cap Range(Buckets[t]) = {}
        /\ UNION {Range(Buckets[t]) : t \in SeverityFlag} = Range(result.interactions)

\* three interactions found, in three different buckets, one of them the
\* YELLOW_FLAG bucket
C8_Witness ==
    /\ AnalyzeReturned
    /\ result.risk_summary.total_interactions = 3
    /\ result.risk_summary.orange_flags = 1
    /\ result.risk_summary.yellow_flags = 1
    /\ result.risk_summary.green_flags = 1

\* the five section headers, in the order of the specification
SectionHeaders ==
    <<CriticalHeader, DangerousHeader, WarningHeader, BlackBoxHeader, GeneralHeader>>

\* the headers among the recommendation lines, in the order they appear
HeadersOf(lines) == SelectSeq(lines, LAMBDA l : l \in Range(SectionHeaders))

\* a drug profile carries a black-box warning when its black_box_warning
\* field holds a warning text (section (d) lists the drug "with its warning
\* text"); an absent field and an object without text carry none
CarriesWarning(profile) ==
    /\ profile.black_box_warning # None
    /\ "warning" \in DOMAIN profile.black_box_warning

\* the analyzed medications that carry a black-box warning
WarnedProfiles == SelectSeq(result.analyzed_medications, CarriesWarning)

\* what triggers each section, and how many lines follow its header
Triggered(header) ==
    CASE header = CriticalHeader -> Present("BLACK_FLAG")
      [] header = DangerousHeader -> Present("RED_FLAG")
      [] header = WarningHeader -> Present("ORANGE_FLAG")
      [] header = BlackBoxHeader -> WarnedProfiles # <<>>
      [] header = GeneralHeader -> Present("BLACK_FLAG") \/ Present("RED_FLAG")

LinesUnder(header) ==
    CASE header = CriticalHeader ->
             [k \in DOMAIN result.black_flags |->
                 <<"->", result.black_flags[k].recommendation>>]
      [] header = DangerousHeader ->
             [k \in DOMAIN result.red_flags |->
                 <<"->", result.red_flags[k].recommendation>>]
      [] header = WarningHeader ->
             [k \in DOMAIN result.orange_flags |->
                 <<"->", result.orange_flags[k].recommendation>>]
      [] header = BlackBoxHeader ->
             [k \in DOMAIN WarnedProfiles |->
                 <<"->", WarnedProfiles[k].name, ":",
                   WarnedProfiles[k].black_box_warning.warning>>]
      [] header = GeneralHeader -> GeneralLines

\* C9: the recommendation list is built from sections that appear in the
\* order BLACK_FLAG, RED_FLAG, ORANGE_FLAG, black-box warnings, general
\* precautions; each section is present exactly when its trigger holds (a
\* non-empty bucket of its tier; a resolved drug with a black-box warning; a
\* BLACK_FLAG or RED_FLAG interaction for the general block), its header
\* followed by its lines; YELLOW_FLAG and GREEN_FLAG interactions add no
\* line.
C9_SectionsInOrder ==
    AnalyzeReturned =>
        LET lines == result.clinical_recommendations
            present == SelectSeq(SectionHeaders, Triggered)
            at(h) == CHOOSE p \in DOMAIN lines : lines[p] = h
        IN  /\ HeadersOf(lines) = present
            /\ \A n \in DOMAIN present :
                   LET h == present[n]
                       body == LinesUnder(h)
                   IN  /\ SubSeq(lines, at(h) + 1, at(h) + Len(body)) = body
                       /\ at(h) + Len(body) =
                              IF n = Len(present) THEN Len(lines)
                              ELSE at(present[n + 1]) - 1
            /\ present = <<>> => lines = <<>>

\* all five sections at once: a BLACK_FLAG, a RED_FLAG and an ORANGE_FLAG
\* interaction found between an analyzed drug with a black-box warning and
\* one whose black_box_warning is the empty object; the black-box section
\* lists the first drug only
C9_Witness ==
    /\ AnalyzeReturned
    /\ HeadersOf(result.clinical_recommendations) = SectionHeaders
    /\ Len(result.analyzed_medications) = 2
    /\ \E k \in DOMAIN result.analyzed_medications :
           result.analyzed_medications[k].black_box_warning = EmptyDict
    /\ Len(WarnedProfiles) = 1
    /\ Len(result.clinical_recommendations) = 13

=============================================================================
